---- MODULE Spec2Model ----
(***************************************************************************)
(* Request dispatch engine of the Ollama proxy server.                     *)
(*                                                                         *)
(* Two programs share the dispatcher:                                      *)
(*   "standalone"  the proxy binary (handleRequest, one load at boot,      *)
(*                 access log, .catch handler of http.createServer);       *)
(*   "embedded"    the express application (handleAiRequest, refreshData   *)
(*                 every 10 s, configureAiHandler, express error handler). *)
(* JavaScript runs one callback at a time, so an action is the code that   *)
(* runs between two awaits of a handler.                                   *)
(***************************************************************************)
EXTENDS Integers, Sequences, FiniteSets, TLC

\* ---------------------------------------------------------------- bounds
NumReqs == 2
MaxGen == 2
MaxChunks == 1

Reqs == 1..NumReqs
Gens == 1..MaxGen

\* ------------------------------------------------- program constants
retryAttempts == 3

modelBasedEndpoints == {"/api/generate", "/api/chat", "/generate", "/chat"}

\* ------------------------------------------------- the external store
Names == {"A", "B", "C"}
hostedModels == [n \in Names |-> IF n = "B" THEN {"m1", "m2"} ELSE {"m1"}]
storeUsers == (<<"alice">> :> <<"sk1">>)

\* A ServerInfo object: getConfig builds a fresh one, with an empty queue,
\* for every row on every load; gen tells the loads apart.
Objs == [name : Names, gen : Gens]
NoObj == [name |-> "", gen |-> 0]

getConfig(rows, g) == [i \in 1..Len(rows) |-> [name |-> rows[i], gen |-> g]]

\* ------------------------------------------------- inputs
Statuses == {200, 500}

AuthHeaders ==
  { <<>>,
    <<"Basic ", "alice", ":", "sk1">>,
    <<"Bearer ", "alice", ":", "sk1">>,
    <<"Bearer ", "alice", ":", "WRONG">>,
    <<"Bearer ", "bob", ":", "sk1">>,
    <<"Bearer ", "alice">>,
    <<"Bearer ", "alice", ":", "sk1", ":", "x">> }
Unread == <<"unread">>

RequestInputs ==
  { [method |-> "GET",  path |-> "/api/chat", qmodel |-> "m1"],
    [method |-> "GET",  path |-> "/api/chat", qmodel |-> "m9"],
    [method |-> "GET",  path |-> "/api/chat", qmodel |-> ""],
    [method |-> "POST", path |-> "/api/chat", qmodel |-> ""],
    [method |-> "GET",  path |-> "/version",  qmodel |-> ""] }
BodyModels == {"", "m2"}

\* ------------------------------------------------- state
VARIABLES
  variant,            \* which program runs
  deactivateSecurity, \* module variable of the handler
  servers,            \* module variable: the published backend list
  authorizedUsers,    \* module variable: username -> key
  queue,              \* ServerInfo.queue.length of every object
  db,                 \* rows of the Server table, in findMany order
  gen,                \* number of getConfig results built so far
  refreshPc,          \* position of the loader: "idle", "users", "off"
  nodeServers,        \* node.ts's own servers variable
  log,                \* lines of the access log file, <<>> = no file
  world,              \* what clients and backends of this run may send
  req,                \* per request: handler locals, response, history
  relay,              \* one run of pump: upstream chunks and bytes written
  hdrs,               \* one request's header sets, client to backend and back
  proc,               \* the server process: "running", "closing", "exited"
  fwd,                \* one call of sendRequestWithRetries: fetches and timers
  authz,              \* one reading of an Authorization header
  post,               \* one request body, from the client to options.body
  probe,              \* one call of isServerAvailable
  userTable           \* the User table and the POST /users requests on it

vars == <<variant, deactivateSecurity, servers, authorizedUsers, queue, db,
          gen, refreshPc, nodeServers, log, world, req, relay,
          hdrs, proc, fwd, authz, post, probe, userTable>>

\* what the steps of the dispatcher and of the loader leave alone
units == <<post, probe, userTable>>

aux == <<relay, hdrs, proc, fwd, authz, units>>

IdleFrame ==
  [ pc |-> "idle", header |-> Unread, method |-> "", path |-> "",
    qmodel |-> "", model |-> "", user |-> <<"unknown">>,
    avail |-> <<>>, cur |-> NoObj, att |-> 0, response |-> 0,
    \* the ServerResponse
    status |-> 0, heads |-> 0, term |-> "open", body |-> "", chunks |-> 0,
    \* history
    seen |-> <<>>, snap |-> <<>>, routed |-> FALSE, probed |-> <<>>,
    sent |-> <<>>,
    answered |-> <<>>, incd |-> <<>>, decd |-> <<>>,
    thrown |-> "no" ]

NoRelay == [pc |-> "idle", src |-> <<>>, up |-> <<>>, out |-> <<>>]

Attempts == 1..retryAttempts

NoForward == [pc |-> "idle", i |-> 0, fetch |-> [k \in Attempts |-> "none"],
              timer |-> [k \in Attempts |-> "none"], timedOut |-> {},
              delivered |-> 0]

NoAuth == [pc |-> "idle", header |-> <<>>, users |-> <<>>, ok |-> FALSE,
           user |-> <<>>]

NoPost == [pc |-> "idle", method |-> "", text |-> "", postData |-> "{}",
           body |-> "none"]

NoProbe == [pc |-> "idle", url |-> "", fetch |-> "none", status |-> 0,
            timer |-> "none", result |-> "none",
            atReturn |-> [fetch |-> "none", status |-> 0, timer |-> "none"]]

\* POST /users requests in flight
NumPosts == 2
Posts == 1..NumPosts

\* a POST /users request before it arrives: body fields, split bearer token,
\* the result of listUsers() and the status answered
NoCreation == [pc |-> "idle", username |-> "", key |-> "", token |-> <<>>,
               users |-> <<>>, status |-> 0]

NoUsers == [pc |-> "idle", rows |-> <<>>, posts |-> [p \in Posts |-> NoCreation]]

InitUnits == post = NoPost /\ probe = NoProbe /\ userTable = NoUsers

NoHeaders == [pc |-> "idle", method |-> "", raw |-> <<>>, backend |-> <<>>,
              options |-> <<>>, upstream |-> <<>>, sent |-> <<>>]

InitCommon ==
  /\ servers = <<>>
  /\ authorizedUsers = <<>>
  /\ queue = [o \in Objs |-> 0]
  /\ gen = 0
  /\ refreshPc = "idle"
  /\ nodeServers = <<>>
  /\ log = <<>>
  /\ req = [r \in Reqs |-> IdleFrame]

Init ==
  /\ InitCommon
  /\ relay = NoRelay
  /\ hdrs = NoHeaders
  /\ proc = "running"
  /\ fwd = NoForward
  /\ authz = NoAuth
  /\ InitUnits
  /\ db = <<"A", "B">>
  /\ world = [headers |-> AuthHeaders, inputs |-> RequestInputs,
              statuses |-> Statuses, streams |-> BOOLEAN]
  /\ variant \in {"standalone", "embedded"}
  /\ deactivateSecurity = FALSE

\* ------------------------------------------------- loading the store
\* refreshData (embedded, at boot and every 10 s) and the boot-time load of
\* the standalone binary: first getConfig, then getAuthorizedUsers.
RefreshGetConfig ==
  /\ refreshPc = "idle"
  /\ gen < MaxGen
  /\ \E ok \in BOOLEAN :
       IF ok
       THEN /\ gen' = gen + 1
            /\ queue' = [o \in Objs |-> IF o.gen = gen + 1 THEN 0 ELSE queue[o]]
            /\ refreshPc' = "users"
            /\ IF variant = "standalone"
               THEN servers' = getConfig(db, gen + 1) /\ UNCHANGED nodeServers
               ELSE nodeServers' = getConfig(db, gen + 1) /\ UNCHANGED servers
       ELSE /\ refreshPc' = IF variant = "standalone" THEN "off" ELSE "idle"
            /\ UNCHANGED <<gen, queue, servers, nodeServers>>
  /\ UNCHANGED <<variant, deactivateSecurity, authorizedUsers, db, log, world,
                 req, aux>>

configureAiHandler(newServers, newAuthorizedUsers, newDeactivateSecurity) ==
  /\ servers' = newServers
  /\ authorizedUsers' = newAuthorizedUsers
  /\ deactivateSecurity' = newDeactivateSecurity

\* a refresher whose catch block configures the handler all the same
RefreshGetUsersAnyway ==
  /\ refreshPc = "users"
  /\ refreshPc' = IF variant = "standalone" THEN "off" ELSE "idle"
  /\ \E ok \in BOOLEAN :
       IF variant = "standalone"
       THEN IF ok
            THEN authorizedUsers' = storeUsers
                 /\ UNCHANGED <<servers, deactivateSecurity>>
            ELSE UNCHANGED <<servers, authorizedUsers, deactivateSecurity>>
       ELSE configureAiHandler(nodeServers,
                               IF ok THEN storeUsers ELSE authorizedUsers, FALSE)
  /\ UNCHANGED <<variant, queue, db, gen, nodeServers, log, world, req, aux>>

RefreshGetUsers ==
  /\ refreshPc = "users"
  /\ refreshPc' = IF variant = "standalone" THEN "off" ELSE "idle"
  /\ \E ok \in BOOLEAN :
       IF ok
       THEN IF variant = "standalone"
            THEN /\ authorizedUsers' = storeUsers
                 /\ UNCHANGED <<servers, deactivateSecurity>>
            ELSE configureAiHandler(nodeServers, storeUsers, FALSE)
       ELSE UNCHANGED <<servers, authorizedUsers, deactivateSecurity>>
  /\ UNCHANGED <<variant, queue, db, gen, nodeServers, log, world, req, aux>>

\* ------------------------------------------------- access log
fields == <<"time_stamp", "event", "user_name", "ip_address", "access",
            "server", "nb_queued_requests_on_server", "error">>

\* JSON.stringify(obj[f] || ""): a falsy value is written as the empty string.
csvNumber(n) == IF n = 0 THEN "\"\"" ELSE ToString(n)

csvLine(event, user, access, server, nbQueued, error) ==
  [event |-> event, user_name |-> user, access |-> access, server |-> server,
   nb_queued_requests_on_server |-> csvNumber(nbQueued), error |-> error]

headerLine ==
  [event |-> "event", user_name |-> <<"user_name">>, access |-> "access",
   server |-> "server",
   nb_queued_requests_on_server |-> "nb_queued_requests_on_server",
   error |-> "error"]

\* an append that writes the header row every time
addAccessLogEntryWithHeader(file, event, user, access, server, nbQueued, error) ==
  file \o <<headerLine, csvLine(event, user, access, server, nbQueued, error)>>

addAccessLogEntry(file, event, user, access, server, nbQueued, error) ==
  LET writeHeader == (file = <<>>)
      line == csvLine(event, user, access, server, nbQueued, error)
  IN IF writeHeader THEN <<headerLine, line>> ELSE Append(file, line)

\* ------------------------------------------------- helpers of the handler
RECURSIVE split(_)
split(token) ==   \* String.prototype.split(":")
  IF \A i \in 1..Len(token) : token[i] # ":"
  THEN <<token>>
  ELSE LET i == CHOOSE i \in 1..Len(token) :
                  token[i] = ":" /\ \A j \in 1..(i - 1) : token[j] # ":"
       IN <<SubSeq(token, 1, i - 1)>> \o split(SubSeq(token, i + 1, Len(token)))

keyMismatch(users, u, k) ==   \* authorizedUsers[u] !== k
  IF u \in DOMAIN users THEN users[u] # k ELSE TRUE

push(n) == n + 1
pop(n) == IF n = 0 THEN 0 ELSE n - 1

\* a sort that is not stable: an element goes in front of its equals
insertBeforeEquals(x, s, q) ==
  LET p == Cardinality({i \in 1..Len(s) : q[s[i]] < q[x]})
  IN SubSeq(s, 1, p) \o <<x>> \o SubSeq(s, p + 1, Len(s))

\* Array.prototype.sort with (a, b) => a.queue.length - b.queue.length: stable.
insertByQueue(x, s, q) ==
  LET p == Cardinality({i \in 1..Len(s) : q[s[i]] <= q[x]})
  IN SubSeq(s, 1, p) \o <<x>> \o SubSeq(s, p + 1, Len(s))

RECURSIVE sortByQueue(_, _)
sortByQueue(s, q) ==
  IF s = <<>> THEN <<>>
  ELSE insertByQueue(s[Len(s)], sortByQueue(SubSeq(s, 1, Len(s) - 1), q), q)

\* a check that takes every backend for one that hosts the model
supportsAny(o, model) == TRUE

supports(o, model) == model \in hostedModels[o.name]

\* a filter that forgets the model
filterNothing(list, model) == list

filterByModel(list, model) ==   \* servers.filter(info.models.includes(model))
  SelectSeq(list, LAMBDA o : supports(o, model))

\* ------------------------------------------------- steps of the handler
\* A step takes and returns S = [f: the request, q: the queues, log: the file,
\* list: the published array of backends].

return(f) ==   \* the handler's frame is gone
  [f EXCEPT !.pc = "done", !.avail = <<>>, !.cur = NoObj, !.att = 0,
            !.response = 0]

\* res.writeHead(status); res.end(body) on a response without headers
respond(f, status, body) ==
  [f EXCEPT !.status = status, !.heads = @ + 1, !.term = "ended", !.body = body]

\* An exception leaves the handler: the .catch of http.createServer
\* (standalone) or next(err) and express's error handler (embedded).
\* writeHead throws once headers are sent; thrown records whether the
\* exception was answered with a 500 ("answered"), handled without a response
\* ("caught") or left the callback that was to handle it ("escaped").
topLevelCatch(S) ==
  LET f == S.f IN
  [S EXCEPT !.f =
     IF variant = "standalone"
     THEN IF f.status = 0
          THEN return(respond([f EXCEPT !.thrown = "answered"], 500,
                              "Internal server error"))
          ELSE return([f EXCEPT !.heads = @ + 1, !.thrown = "escaped"])
     ELSE IF f.status = 0
          THEN return(respond([f EXCEPT !.thrown = "answered"], 500,
                              "Internal Server Error"))
          ELSE return([f EXCEPT !.term = "destroyed", !.thrown = "caught"])]

\* a handler that returns after the loop without writing anything
afterLoopSilent(S) == [S EXCEPT !.f = return(S.f)]

\* the code after the while loop of a model-based endpoint
afterLoop(S) ==
  IF S.f.response = 0
  THEN IF S.f.status = 0
       THEN [S EXCEPT !.f = return(respond(S.f, 503,
                                "No available servers could handle the request."))]
       ELSE topLevelCatch([S EXCEPT !.f.heads = @ + 1])
  ELSE [S EXCEPT !.f = return(S.f)]

\* a loop that reads the published list again at every iteration
loopTopRereading(S) ==
  LET fresh == SelectSeq(filterByModel(servers, S.f.model),
                         LAMBDA o : \A i \in 1..Len(S.f.probed) :
                                      S.f.probed[i].name # o.name)
  IN IF fresh = <<>>
     THEN afterLoop(S)
     ELSE LET sorted == sortByQueue(fresh, S.q) IN
          [S EXCEPT !.f.avail = sorted, !.f.cur = sorted[1], !.f.pc = "probe",
                    !.f.probed = Append(@, sorted[1])]

\* a loop that counts the request on the backend it has just chosen
loopTopCounting(S) ==
  IF S.f.avail = <<>>
  THEN afterLoop(S)
  ELSE LET sorted == sortByQueue(S.f.avail, S.q) IN
       [S EXCEPT !.f.avail = sorted, !.f.cur = sorted[1], !.f.pc = "probe",
                 !.f.probed = Append(@, sorted[1]),
                 !.q[sorted[1]] = push(@), !.f.incd = Append(@, sorted[1])]

\* a loop whose candidates are the published array itself
loopTopOnPublished(S) ==
  IF S.f.avail = <<>>
  THEN afterLoop(S)
  ELSE LET sorted == sortByQueue(S.f.avail, S.q) IN
       [S EXCEPT !.f.avail = sorted, !.f.cur = sorted[1], !.f.pc = "probe",
                 !.f.probed = Append(@, sorted[1]), !.list = sorted]

\* top of the while loop: sort, take the head, start its probe
loopTop(S) ==
  IF S.f.avail = <<>>
  THEN afterLoop(S)
  ELSE LET sorted == sortByQueue(S.f.avail, S.q) IN
       [S EXCEPT !.f.avail = sorted, !.f.cur = sorted[1], !.f.pc = "probe",
                 !.f.probed = Append(@, sorted[1])]

\* finally { queue.pop(); addAccessLogEntry("gen_done", ...) }
\* [S, threw]: the log append of the standalone binary may throw.
\* a finally that finds the counter through the published list, by name
finallyByName(S, logOK) ==
  LET same == {i \in 1..Len(S.list) : S.list[i].name = S.f.cur.name}
      o == IF same = {} THEN S.f.cur ELSE S.list[CHOOSE i \in same : TRUE]
      n == pop(S.q[o])
      S1 == [S EXCEPT !.q[o] = n, !.f.decd = Append(@, o)]
  IN IF variant = "standalone"
     THEN IF logOK
          THEN [S |-> [S1 EXCEPT !.log = addAccessLogEntry(S1.log, "gen_done",
                          S.f.user, "Authorized", o.name, n, "")],
                threw |-> FALSE]
          ELSE [S |-> S1, threw |-> TRUE]
     ELSE [S |-> S1, threw |-> FALSE]

\* finally { queue.pop() }: queue is the array captured before the push
finally(S, logOK) ==
  LET o == S.f.cur
      n == pop(S.q[o])
      S1 == [S EXCEPT !.q[o] = n, !.f.decd = Append(@, o)]
  IN IF variant = "standalone"
     THEN IF logOK
          THEN [S |-> [S1 EXCEPT !.log = addAccessLogEntry(S1.log, "gen_done",
                          S.f.user, "Authorized", o.name, n, "")],
                threw |-> FALSE]
          ELSE [S |-> S1, threw |-> TRUE]
     ELSE [S |-> S1, threw |-> FALSE]

\* an exception inside try: standalone has only finally, embedded catches,
\* drops the head of the candidates and loops again
throwInTry(S, logOK) ==
  IF variant = "standalone"
  THEN topLevelCatch(finally(S, logOK).S)
  ELSE loopTop(finally([S EXCEPT !.f.avail = Tail(@)], logOK).S)

\* break out of the loop with a response
breakLoop(S, logOK) ==
  LET F == finally(S, logOK)
  IN IF F.threw THEN topLevelCatch(F.S) ELSE afterLoop(F.S)

\* sendRequestWithRetries returned null
forwardNull(S, logOK) ==
  IF S.f.path \in modelBasedEndpoints
  THEN LET F == finally([S EXCEPT !.f.response = 0, !.f.avail = Tail(@)], logOK)
       IN IF F.threw THEN topLevelCatch(F.S) ELSE loopTop(F.S)
  ELSE [S EXCEPT !.f = return(respond(S.f, 503,
                          "Failed to forward request to default server."))]

\* sendRequestWithRetries is called: the first fetch is issued
startForward(S) ==
  [S EXCEPT !.f.pc = "fwd", !.f.att = 0, !.f.sent = Append(@, S.f.cur)]

\* Authorization: [ok, user]; user is what the rejection is logged under.
authenticate(header, users) ==
  IF header = <<>> \/ header[1] # "Bearer "
  THEN [ok |-> FALSE, user |-> <<"unknown">>]
  ELSE LET token == Tail(header)
           parts == split(token)
       IN IF Len(parts) # 2
          THEN [ok |-> FALSE, user |-> token]
          ELSE IF keyMismatch(users, parts[1], parts[2])
               THEN [ok |-> FALSE, user |-> token]
               ELSE [ok |-> TRUE, user |-> parts[1]]

\* the 403 of a failed authorization; only the standalone binary logs it
reject(S, user, logOK) ==
  IF variant = "standalone"
  THEN IF logOK
       THEN [S EXCEPT !.log = addAccessLogEntry(S.log, "rejected", user, "Denied",
                                 "None", -1, "Authentication failed"),
                      !.f = return(respond(S.f, 403, ""))]
       ELSE topLevelCatch(S)
  ELSE [S EXCEPT !.f = return(respond(S.f, 403, ""))]

\* an index that is off: the last backend instead of the first
lastServer(list) == list[Len(list)]

\* const [defaultServerName, defaultServerInfo] = servers[0]
defaultServer(list) == list[1]

\* a check that lets the empty model through
missingModelNever(f) == FALSE

\* if (!model)
missingModel(f) == f.model = ""

\* routing, once the model is known
route(S) ==
  LET f == [S.f EXCEPT !.snap = servers, !.routed = TRUE] IN
  IF f.path \in modelBasedEndpoints
  THEN IF missingModel(f)
       THEN [S EXCEPT !.f = return(respond(f, 400, "Missing 'model' in request"))]
       ELSE LET availableServers == filterByModel(servers, f.model) IN
            IF availableServers = <<>>
            THEN [S EXCEPT !.f = return(respond(f, 503,
                                   "No servers support the requested model."))]
            ELSE loopTop([S EXCEPT !.f = [f EXCEPT !.avail = availableServers]])
  ELSE IF servers = <<>>
       THEN IF variant = "standalone"
            THEN topLevelCatch([S EXCEPT !.f = f])   \* servers[0] is undefined
            ELSE [S EXCEPT !.f = return(respond(f, 503, "No servers configured."))]
       ELSE LET o == defaultServer(servers) IN
            [S EXCEPT !.f = [f EXCEPT !.cur = o, !.pc = "probe",
                                      !.probed = Append(@, o)]]

\* from the entry of the handler to its first await
arrive(S, header, in, logOK) ==
  LET auth == IF deactivateSecurity
              THEN [ok |-> TRUE, user |-> <<"unknown">>]
              ELSE authenticate(header, authorizedUsers)
      S1 == [S EXCEPT !.f.header = header, !.f.seen = servers]
  IN IF ~auth.ok
     THEN reject(S1, auth.user, logOK)
     ELSE LET S2 == [S1 EXCEPT !.f.user = auth.user, !.f.method = in.method,
                               !.f.path = in.path, !.f.qmodel = in.qmodel]
          IN IF in.method = "POST"
             THEN [S2 EXCEPT !.f.pc = "body"]
             ELSE route([S2 EXCEPT !.f.model = in.qmodel])

\* the POST body has arrived; bmodel = "" when it has no model or is not JSON
bodyEnd(S, bmodel) ==
  route([S EXCEPT !.f.model = IF bmodel # "" THEN bmodel ELSE S.f.qmodel])

\* isServerAvailable has resolved
probed(S, available, logOK) ==
  IF S.f.path \in modelBasedEndpoints
  THEN IF ~available
       THEN loopTop([S EXCEPT !.f.avail = Tail(@)])
       ELSE LET o == S.f.cur
                n == push(S.q[o])
                S1 == [S EXCEPT !.q[o] = n, !.f.incd = Append(@, o)]
            IN IF variant = "standalone"
               THEN IF logOK
                    THEN startForward([S1 EXCEPT !.log =
                           addAccessLogEntry(S1.log, "gen_request", S.f.user,
                                             "Authorized", o.name, n, "")])
                    ELSE topLevelCatch(S1)
               ELSE startForward(S1)
  ELSE IF ~available
       THEN [S EXCEPT !.f = return(respond(S.f, 503,
                               "Default server is not available."))]
       ELSE startForward(S)

\* sendRequestWithRetries returned a response: relay status and headers
gotResponse(S, status, isStream, logOK) ==
  LET S1 == [S EXCEPT !.f.response = status,
                      !.f.answered = Append(@, <<S.f.cur, status>>)]
      inLoop == S.f.path \in modelBasedEndpoints
  IN IF S1.f.status # 0
     THEN \* res.writeHead throws: headers already sent
          LET S2 == [S1 EXCEPT !.f.heads = @ + 1]
          IN IF inLoop THEN throwInTry(S2, logOK) ELSE topLevelCatch(S2)
     ELSE LET S2 == [S1 EXCEPT !.f.status = status, !.f.heads = @ + 1]
          IN IF isStream
             THEN [S2 EXCEPT !.f.pc = "pump"]
             ELSE IF variant = "standalone"
                  THEN IF inLoop THEN breakLoop(S2, logOK)
                       ELSE [S2 EXCEPT !.f = return(S2.f)]
                  ELSE [S2 EXCEPT !.f.pc = "text"]

\* one fetch of sendRequestWithRetries has settled; outcome 0 = transport
\* error or deadline expiry, otherwise the status of the response; att is
\* the number of attempts of this call that have failed
attemptedOnceMore(S, outcome, isStream, logOK) ==
  IF outcome # 0
  THEN gotResponse(S, outcome, isStream, logOK)
  ELSE IF S.f.att < retryAttempts
       THEN [S EXCEPT !.f.att = @ + 1]
       ELSE forwardNull(S, logOK)

attempted(S, outcome, isStream, logOK) ==
  IF outcome # 0
  THEN gotResponse(S, outcome, isStream, logOK)
  ELSE IF S.f.att + 1 < retryAttempts
       THEN [S EXCEPT !.f.att = @ + 1]
       ELSE forwardNull(S, logOK)

\* the body has been relayed and the response ended
relayed(S, logOK) ==
  LET S1 == [S EXCEPT !.f.term = "ended"]
  IN IF S.f.path \in modelBasedEndpoints
     THEN breakLoop(S1, logOK)
     ELSE [S1 EXCEPT !.f = return(S1.f)]

\* reading the upstream body failed
readFailed(S, logOK) ==
  IF S.f.path \in modelBasedEndpoints
  THEN throwInTry(S, logOK)
  ELSE topLevelCatch(S)

\* pump: one reader.read() has settled
pump(S, ev, logOK) ==
  CASE ev = "chunk" -> [S EXCEPT !.f.chunks = @ + 1]
    [] ev = "done" -> relayed(S, logOK)
    [] OTHER -> readFailed(S, logOK)

\* ------------------------------------------------- actions
St(r) == [f |-> req[r], q |-> queue, log |-> log, list |-> servers]

Commit(r, S) ==
  /\ req' = [req EXCEPT ![r] = S.f]
  /\ queue' = S.q
  /\ log' = S.log
  /\ servers' = S.list
  /\ UNCHANGED <<variant, deactivateSecurity, authorizedUsers, db,
                 gen, refreshPc, nodeServers, world, aux>>

LogOutcomes == IF variant = "standalone" THEN BOOLEAN ELSE {TRUE}

Arrive(r) ==
  /\ req[r].pc = "idle"
  /\ r > 1 => req[r - 1].pc # "idle"
  /\ \E header \in (IF deactivateSecurity THEN {Unread} ELSE world.headers),
        in \in world.inputs, logOK \in LogOutcomes :
       Commit(r, arrive(St(r), header, in, logOK))

BodyEnd(r) ==
  /\ req[r].pc = "body"
  /\ \E bmodel \in BodyModels : Commit(r, bodyEnd(St(r), bmodel))

ProbeDone(r) ==
  /\ req[r].pc = "probe"
  /\ \E available \in BOOLEAN, logOK \in LogOutcomes :
       Commit(r, probed(St(r), available, logOK))

FetchDone(r) ==
  /\ req[r].pc = "fwd"
  /\ \E outcome \in {0} \cup world.statuses, isStream \in world.streams,
        logOK \in LogOutcomes :
       Commit(r, attempted(St(r), outcome, isStream, logOK))

PumpRead(r) ==
  /\ req[r].pc = "pump"
  /\ \E ev \in {"chunk", "done", "error"}, logOK \in LogOutcomes :
       /\ ev = "chunk" => req[r].chunks < MaxChunks
       /\ Commit(r, pump(St(r), ev, logOK))

TextDone(r) ==
  /\ req[r].pc = "text"
  /\ \E ok \in BOOLEAN :
       Commit(r, IF ok THEN relayed(St(r), TRUE) ELSE readFailed(St(r), TRUE))

Next ==
  \/ RefreshGetConfig
  \/ RefreshGetUsers
  \/ \E r \in Reqs : Arrive(r)
  \/ \E r \in Reqs : BodyEnd(r)
  \/ \E r \in Reqs : ProbeDone(r)
  \/ \E r \in Reqs : FetchDone(r)
  \/ \E r \in Reqs : PumpRead(r)
  \/ \E r \in Reqs : TextDone(r)

Spec == Init /\ [][Next]_vars

\* Three backends that all serve the requested model, authorized GET
\* requests only, backends that answer 200 with a body that is no web
\* stream: the runs in which the order of the candidates matters.
InitOrder ==
  /\ InitCommon
  /\ relay = NoRelay
  /\ hdrs = NoHeaders
  /\ proc = "running"
  /\ fwd = NoForward
  /\ authz = NoAuth
  /\ InitUnits
  /\ db = <<"A", "B", "C">>
  /\ world = [headers |-> {<<"Bearer ", "alice", ":", "sk1">>},
              inputs |-> {[method |-> "GET", path |-> "/api/chat",
                           qmodel |-> "m1"]},
              statuses |-> {200}, streams |-> {FALSE}]
  /\ variant \in {"standalone", "embedded"}
  /\ deactivateSecurity = FALSE

NextOrder ==
  \/ RefreshGetConfig
  \/ RefreshGetUsers
  \/ \E r \in Reqs : Arrive(r)
  \/ \E r \in Reqs : ProbeDone(r)
  \/ \E r \in Reqs : FetchDone(r)
  \/ \E r \in Reqs : TextDone(r)

SpecOrder == InitOrder /\ [][NextOrder]_vars

\* A store without Server rows: every snapshot is empty, so no request gets
\* as far as a probe. The standalone binary may run with
\* --deactivate_security; configureAiHandler always enables security.
InitEmpty ==
  /\ InitCommon
  /\ relay = NoRelay
  /\ hdrs = NoHeaders
  /\ proc = "running"
  /\ fwd = NoForward
  /\ authz = NoAuth
  /\ InitUnits
  /\ db = <<>>
  /\ world = [headers |-> AuthHeaders, inputs |-> RequestInputs,
              statuses |-> Statuses, streams |-> BOOLEAN]
  /\ variant \in {"standalone", "embedded"}
  /\ deactivateSecurity \in (IF variant = "standalone" THEN BOOLEAN ELSE {FALSE})

NextEmpty ==
  \/ RefreshGetConfig
  \/ RefreshGetUsers
  \/ \E r \in Reqs : Arrive(r)
  \/ \E r \in Reqs : BodyEnd(r)

SpecEmpty == InitEmpty /\ [][NextEmpty]_vars

\* ------------------------------------------------- vocabulary of the claims
Range(s) == {s[i] : i \in 1..Len(s)}
Count(s, x) == Cardinality({i \in 1..Len(s) : s[i] = x})
CountName(s, b) == Cardinality({i \in 1..Len(s) : s[i].name = b})

RECURSIVE Sum(_, _)
Sum(f, S) == IF S = {} THEN 0
             ELSE LET x == CHOOSE x \in S : TRUE IN f[x] + Sum(f, S \ {x})

Incs(b) == Sum([r \in Reqs |-> CountName(req[r].incd, b)], Reqs)
Decs(b) == Sum([r \in Reqs |-> CountName(req[r].decd, b)], Reqs)

\* increments of r on object o, or on backend b, not yet matched by a decrement
Held(r, o) == Count(req[r].incd, o) - Count(req[r].decd, o)
HeldName(r, b) == CountName(req[r].incd, b) - CountName(req[r].decd, b)

AllDone == \A r \in Reqs : req[r].pc = "done"
ModelPath(r) == req[r].path \in modelBasedEndpoints
DefaultPath(r) == req[r].routed /\ ~ModelPath(r)

\* a step of r issues a fetch to the backend r.cur'
NewFetch(r) ==
  /\ req[r]'.pc = "fwd"
  /\ req[r].pc # "fwd" \/ req[r]'.att # req[r].att
\* a step of r receives an HTTP response from the backend r.cur
GotResponse(r) == Len(req[r]'.answered) > Len(req[r].answered)
\* a step of r starts the probe of r.cur'
NewProbe(r) == Len(req[r]'.probed) > Len(req[r].probed)

\* ------------------------------------------------- claims

\* C1 (queue-depth conservation): once every request has terminated, each
\* backend's counter has been incremented and decremented the same number of
\* times and every counter reads 0.
C1_QueueDepthConservation ==
  AllDone => /\ \A b \in Names : Incs(b) = Decs(b)
             /\ \A o \in Objs : queue[o] = 0

\* C2 (depth is exact): the depth the dispatcher reads for a backend of the
\* published list is >= 0 and equals the number of request handlers that have
\* incremented that backend's counter and not yet decremented it, also after
\* a refresh that runs while requests are in flight.
C2_DepthIsInFlightCount ==
  \A i \in 1..Len(servers) :
    /\ queue[servers[i]] >= 0
    /\ queue[servers[i]] =
         Cardinality({r \in Reqs : HeldName(r, servers[i].name) > 0})

\* C3 (increment before forwarding, decrement before moving on): a request
\* that is forwarding to a backend, on the model-endpoint path or on the
\* default path, has incremented that backend's counter, and a request holds
\* an increment only on the backend it is forwarding to or relaying from, on
\* every exit path.
C3_IncBeforeForwardDecOnExit ==
  \A r \in Reqs :
    /\ req[r].pc = "fwd" => Held(r, req[r].cur) = 1
    /\ \A o \in Objs :
         Held(r, o) > 0 => req[r].pc \in {"fwd", "pump", "text"} /\ req[r].cur = o

\* C4 (single response): a terminated request has written exactly one status
\* line and terminated the body exactly once, and no request ever attempts a
\* second writeHead.
C4_SingleResponse ==
  \A r \in Reqs :
    /\ req[r].heads <= 1
    /\ req[r].pc = "done" => req[r].heads = 1 /\ req[r].term = "ended"

\* C5 (retry scope and status transparency): a step that receives a response
\* issues no further fetch and leaves that response's status as the status
\* the client has; no fetch goes to a backend that already answered this
\* request; a further attempt follows only a fetch that got no response.
C5_Step(r) ==
  /\ GotResponse(r) =>
       /\ ~NewFetch(r)
       /\ req[r]'.status = req[r]'.answered[Len(req[r]'.answered)][2]
  /\ NewFetch(r) =>
       \A i \in 1..Len(req[r].answered) : req[r].answered[i][1] # req[r]'.cur
  /\ (req[r].pc = "fwd" /\ req[r]'.pc = "fwd" /\ req[r]'.att = req[r].att + 1)
       => ~GotResponse(r)

C5_RetryScopeStatusTransparency == [][\A r \in Reqs : C5_Step(r)]_vars

\* C6 (backend ordering), as claimed: the backend whose probe a step starts
\* is a remaining candidate of minimum depth at the moment of sorting and,
\* among the candidates of that depth, the first in the snapshot's order.
Pos(s, x) == CHOOSE i \in 1..Len(s) : s[i] = x

MinDepthChosen(r) ==
  /\ req[r]'.cur \in Range(req[r]'.avail)
  /\ \A o \in Range(req[r]'.avail) : queue'[req[r]'.cur] <= queue'[o]

TieFirstIn(r, order) ==
  \A o \in Range(req[r]'.avail) :
    queue'[o] = queue'[req[r]'.cur] => Pos(order, req[r]'.cur) <= Pos(order, o)

C6_OrderingSnapshotTies ==
  [][\A r \in Reqs :
       (NewProbe(r) /\ req[r]'.path \in modelBasedEndpoints)
         => MinDepthChosen(r) /\ TieFirstIn(r, req[r]'.snap)]_vars

\* C6 amended: ties go to the candidate that comes first in the request's own
\* candidate list as the previous iteration left it, which is the snapshot's
\* order only on the first iteration.
ListBeforeSort(r) == IF req[r].avail = <<>> THEN req[r]'.snap ELSE req[r].avail

C6_OrderingListTies ==
  [][\A r \in Reqs :
       (NewProbe(r) /\ req[r]'.path \in modelBasedEndpoints)
         => MinDepthChosen(r) /\ TieFirstIn(r, ListBeforeSort(r))]_vars

\* a request in a later iteration probes the candidate that an earlier sort
\* moved in front of an equally loaded backend placed before it in the snapshot
C6_Witness ==
  \E r \in Reqs :
    /\ req[r].pc = "probe" /\ Len(req[r].probed) = 2 /\ Len(req[r].avail) = 2
    /\ queue[req[r].avail[1]] = queue[req[r].avail[2]]
    /\ Pos(req[r].snap, req[r].avail[1]) > Pos(req[r].snap, req[r].avail[2])

\* C7 (authentication gate): with security enabled, only a request carrying
\* "Bearer USERNAME:KEY" of an authorized user is routed, probed, counted or
\* forwarded; every other request ends with status 403 and an empty body.
ValidCredentials(header) ==
  \E u \in DOMAIN storeUsers :
    header = <<"Bearer ">> \o u \o <<":">> \o storeUsers[u]

C7_AuthenticationGate ==
  ~deactivateSecurity =>
    \A r \in Reqs :
      /\ (req[r].routed \/ req[r].probed # <<>> \/ req[r].incd # <<>>
            \/ req[r].sent # <<>>) => ValidCredentials(req[r].header)
      /\ (req[r].pc = "done" /\ ~ValidCredentials(req[r].header))
           => req[r].status = 403 /\ req[r].body = "" /\ req[r].term = "ended"

\* C8 (model routing): a request to a model-based endpoint never probes,
\* counts on or forwards to a backend that does not host the requested model.
Touched(r) ==
  Range(req[r].probed) \cup Range(req[r].incd) \cup Range(req[r].decd)
    \cup Range(req[r].sent)

C8_ModelRouting ==
  \A r \in Reqs :
    ModelPath(r) => \A o \in Touched(r) : req[r].model \in hostedModels[o.name]

\* a request for m2 was answered by B although A stands first in its snapshot
C8_Witness ==
  \E r \in Reqs :
    /\ ModelPath(r) /\ req[r].model = "m2" /\ req[r].answered # <<>>
    /\ req[r].snap # <<>> /\ req[r].snap[1].name = "A"

\* C9 (default backend): a request to any other path probes and forwards to
\* the first backend of its snapshot only and changes no other counter.
C9_DefaultBackendOnly ==
  \A r \in Reqs :
    DefaultPath(r) =>
      /\ \A o \in Touched(r) : req[r].snap # <<>> /\ o = req[r].snap[1]
      /\ Len(req[r].probed) <= 1 /\ Len(req[r].sent) <= 1

\* the first backend is dead: 503, and the second backend was not consulted
C9_Witness ==
  \E r \in Reqs :
    /\ DefaultPath(r) /\ Len(req[r].snap) = 2
    /\ req[r].probed = <<req[r].snap[1]>> /\ req[r].sent = <<>>
    /\ req[r].pc = "done" /\ req[r].status = 503

\* C10 (ordered failover): a request never probes or forwards to the same
\* candidate twice, and it gives up without a response only after every
\* backend of its snapshot that serves the model has been tried.
NoDuplicates(s) == \A i, j \in 1..Len(s) : s[i] = s[j] => i = j

C10_OrderedFailover ==
  \A r \in Reqs :
    ModelPath(r) =>
      /\ NoDuplicates(req[r].probed) /\ NoDuplicates(req[r].sent)
      /\ (req[r].pc = "done" /\ req[r].model # "" /\ req[r].answered = <<>>)
           => \A i \in 1..Len(req[r].snap) :
                req[r].model \in hostedModels[req[r].snap[i].name]
                  => req[r].snap[i] \in Range(req[r].probed)

\* C11 (exhaustion), as claimed: a step in which the attempt loop ends
\* without any backend having returned a response leaves status 503 with body
\* 'No available servers could handle the request.' (model-based endpoint) or
\* 'Failed to forward request to default server.' (default path), and every
\* increment of the request matched by a decrement.
\* The step takes the last candidate off the list, by a failed probe or by a
\* forward that returned null and whose finally block ran to its end.
LoopEndsWithoutResponse(r) ==
  /\ req[r].pc \in {"probe", "fwd"} /\ req[r]'.pc = "done"
  /\ req[r]'.answered = <<>>
  /\ req[r]'.incd = req[r].incd
  /\ (variant = "standalone" /\ Len(req[r]'.decd) > Len(req[r].decd))
       => Len(log') > Len(log)

AllDecremented(r) ==
  \A o \in Objs : Count(req[r]'.incd, o) = Count(req[r]'.decd, o)

C12_SnapshotConsistency ==
  \A r \in Reqs :
    req[r].routed =>
      /\ Range(req[r].avail) \subseteq Range(req[r].snap)
      /\ Touched(r) \subseteq Range(req[r].snap)
      /\ req[r].cur # NoObj => req[r].cur \in Range(req[r].snap)

\* a request is at its second candidate, an object of its own snapshot,
\* while the published list already holds the objects of a later load
C12_Witness ==
  \E r \in Reqs :
    /\ req[r].pc \in {"probe", "fwd"} /\ Len(req[r].probed) = 2
    /\ req[r].cur \in Range(req[r].snap)
    /\ servers # <<>> /\ servers[1].gen > req[r].cur.gen

\* C13 (coherent snapshot per request): the backend list a request routes on
\* is the list that was published when the request read the security flag
\* and the authorized users, also when the POST body is read in between.
C13_CoherentSnapshot ==
  \A r \in Reqs : req[r].routed => req[r].snap = req[r].seen

\* C14 (no retry after a response): once a backend has returned a response to
\* a request, no step of that request starts another probe or another forward.
C14_NoRetryAfterResponse ==
  [][\A r \in Reqs :
       req[r].answered # <<>> =>
         /\ ~NewProbe(r)
         /\ Len(req[r]'.sent) = Len(req[r].sent)]_vars

\* C15 (log-write containment): whatever step a request takes next, the step
\* with a failing log append leaves the same response and the same position
\* of the handler as the step with a successful append, and a request that
\* has terminated holds no increment without a decrement.
Contained(ok, failed) ==
  /\ failed.f.pc = ok.f.pc
  /\ failed.f.status = ok.f.status /\ failed.f.body = ok.f.body
  /\ failed.f.term = ok.f.term /\ failed.f.heads = ok.f.heads
  /\ failed.q = ok.q
  /\ failed.f.pc = "done" =>
       \A o \in Objs : Count(failed.f.incd, o) = Count(failed.f.decd, o)

C15_LogWriteContainment ==
  FALSE \in LogOutcomes =>
    \A r \in Reqs :
      /\ req[r].pc = "idle" =>
           \A header \in world.headers, in \in world.inputs :
             Contained(arrive(St(r), header, in, TRUE),
                       arrive(St(r), header, in, FALSE))
      /\ req[r].pc = "probe" =>
           \A available \in BOOLEAN :
             Contained(probed(St(r), available, TRUE),
                       probed(St(r), available, FALSE))
      /\ req[r].pc = "fwd" =>
           \A outcome \in {0} \cup world.statuses, isStream \in world.streams :
             Contained(attempted(St(r), outcome, isStream, TRUE),
                       attempted(St(r), outcome, isStream, FALSE))
      /\ req[r].pc = "pump" =>
           \A ev \in {"done", "error"} :
             Contained(pump(St(r), ev, TRUE), pump(St(r), ev, FALSE))

\* C16 (rejection is logged exactly once): the step that rejects a request
\* without valid credentials leaves status 403 with an empty body and adds
\* exactly one row to the access log: event 'rejected', access 'Denied',
\* server 'None', nb_queued -1, error 'Authentication failed'.
NewRows ==
  IF log = <<>>
  THEN IF log' = <<>> THEN <<>> ELSE Tail(log')   \* without the header row
  ELSE SubSeq(log', Len(log) + 1, Len(log'))

IsRejectedRow(row) ==
  /\ row.event = "rejected" /\ row.access = "Denied" /\ row.server = "None"
  /\ row.nb_queued_requests_on_server = "-1"
  /\ row.error = "Authentication failed"

C16_RejectionLoggedOnce ==
  [][\A r \in Reqs :
       (/\ ~deactivateSecurity
        /\ req[r].pc = "idle" /\ req[r]'.pc # "idle"
        /\ ~ValidCredentials(req[r]'.header))
         => /\ req[r]'.pc = "done"
            /\ req[r]'.status = 403 /\ req[r]'.body = ""
            /\ Len(NewRows) = 1 /\ IsRejectedRow(NewRows[1])]_vars

\* C17 (refresh failure keeps the old snapshot): a step of refreshData, the
\* refresher of the express application, either leaves the configuration the
\* dispatcher uses (backends with their counters, users, security flag)
\* exactly as it was, or publishes the backends and the users of one complete
\* load together.
DispatcherConfig ==
  <<servers, authorizedUsers, deactivateSecurity,
    [i \in 1..Len(servers) |-> queue[servers[i]]]>>

PublishedWhole ==
  /\ Len(servers') = Len(db)
  /\ \A i \in 1..Len(db) : servers'[i] = [name |-> db[i], gen |-> gen']
  /\ authorizedUsers' = storeUsers

Routing(r) == ~req[r].routed /\ req[r]'.routed

\* C18 (no supporting backend): the routing step of a model-based request
\* whose model no backend of the snapshot serves ends the request with 503
\* 'No servers support the requested model.', starts no probe, changes no
\* counter and writes no log row.
NoBackendServes(list, model) ==
  \A i \in 1..Len(list) : model \notin hostedModels[list[i].name]

C20_EmptySnapshotDefaultPath ==
  \A r \in Reqs :
    (DefaultPath(r) /\ req[r].snap = <<>>)
      => req[r].pc = "done" /\ req[r].status = 503 /\ req[r].term = "ended"

\* C21 (log header idempotence): the log file is either absent or one header
\* row followed by data rows only, and one more append to it from any request
\* keeps the header in place, adds no header and adds exactly its own row
\* after the rows that were there.
DataRows(file) == IF file = <<>> THEN <<>> ELSE Tail(file)

OneHeaderFirst(file) ==
  /\ file # <<>> /\ file[1] = headerLine
  /\ \A i \in 2..Len(file) : file[i] # headerLine

LogEvents == {"rejected", "gen_request", "gen_done"}

C21_LogHeaderIdempotence ==
  /\ log # <<>> => OneHeaderFirst(log)
  /\ \A event \in LogEvents, r \in Reqs, n \in {-1, 0, 1} :
       LET after == addAccessLogEntry(log, event, req[r].user, "Authorized",
                                      "A", n, "")
       IN /\ OneHeaderFirst(after)
          /\ DataRows(after) =
               Append(DataRows(log),
                      csvLine(event, req[r].user, "Authorized", "A", n, ""))

\* the file holds the header and rows appended by both requests
C21_Witness ==
  /\ Len(log) >= 4
  /\ \E i, j \in 2..Len(log) :
       log[i].event = "rejected" /\ log[j].event = "gen_done"

\* ------------------------------------------------- the streaming relay
\* pump, byte by byte: what one reader.read() makes it write to the client.
\* The wire is a sequence of characters; "CR" and "LF" stand for \r and \n.

MaxUp == 3   \* upstream chunks in one body

bytes(n, b) == [i \in 1..n |-> b]

\* chunks a reader may deliver: 0, 1, 10 and 16 bytes long
UpstreamChunks == {bytes(0, "x"), bytes(1, "x"), bytes(10, "y"), bytes(16, "x")}

SeqsUpTo(set, n) == UNION {[1..k -> set] : k \in 0..n}

digits == <<"0", "1", "2", "3", "4", "5", "6", "7", "8", "9",
            "a", "b", "c", "d", "e", "f">>

upper == ("a" :> "A") @@ ("b" :> "B") @@ ("c" :> "C") @@ ("d" :> "D")
         @@ ("e" :> "E") @@ ("f" :> "F")

\* Number.prototype.toString(16)
RECURSIVE toString16(_)
toString16(n) ==
  IF n < 16 THEN <<digits[n + 1]>>
  ELSE toString16(n \div 16) \o <<digits[(n % 16) + 1]>>

\* String.prototype.toUpperCase
toUpperCase(str) ==
  [i \in 1..Len(str) |-> IF str[i] \in DOMAIN upper THEN upper[str[i]] ELSE str[i]]

\* JavaScript truthiness of a Uint8Array: every object is truthy, empty or not
truthy(value) == TRUE

\* one turn of the for(;;) of pump
pumpLoop(R) ==
  IF R.up = <<>>
  THEN \* done: res.write("0\r\n\r\n"); res.end()
       [R EXCEPT !.out = @ \o <<"0", "CR", "LF", "CR", "LF">>, !.pc = "ended"]
  ELSE LET value == Head(R.up)
           chunkSize == toUpperCase(toString16(Len(value)))
       IN IF truthy(value)
          THEN [R EXCEPT !.up = Tail(@),
                         !.out = @ \o chunkSize \o <<"CR", "LF">> \o value
                                   \o <<"CR", "LF">>]
          ELSE [R EXCEPT !.up = Tail(@)]

ReaderRead ==
  /\ relay.pc = "pumping"
  /\ relay' = pumpLoop(relay)
  /\ UNCHANGED <<variant, deactivateSecurity, servers, authorizedUsers, queue,
                 db, gen, refreshPc, nodeServers, log, world, req, hdrs,
                 proc, fwd, authz, units>>

InitRelay ==
  /\ InitCommon
  /\ db = <<"A", "B">>
  /\ world = [headers |-> AuthHeaders, inputs |-> RequestInputs,
              statuses |-> Statuses, streams |-> BOOLEAN]
  /\ variant \in {"standalone", "embedded"}
  /\ deactivateSecurity = FALSE
  /\ hdrs = NoHeaders
  /\ proc = "running"
  /\ fwd = NoForward
  /\ authz = NoAuth
  /\ InitUnits
  /\ \E src \in SeqsUpTo(UpstreamChunks, MaxUp) :
       relay = [pc |-> "pumping", src |-> src, up |-> src, out |-> <<>>]

NextRelay == ReaderRead

SpecRelay == InitRelay /\ [][NextRelay]_vars

\* ---- reading the wire as an HTTP/1.1 chunked body
UpperHex == {"0", "1", "2", "3", "4", "5", "6", "7", "8", "9",
             "A", "B", "C", "D", "E", "F"}

HexValue(c) == CHOOSE v \in 0..15 : toUpperCase(<<digits[v + 1]>>) = <<c>>

RECURSIVE parseHex(_)
parseHex(str) ==
  IF str = <<>> THEN 0
  ELSE 16 * parseHex(SubSeq(str, 1, Len(str) - 1)) + HexValue(str[Len(str)])

IsCRLF(w, i) == i + 1 <= Len(w) /\ w[i] = "CR" /\ w[i + 1] = "LF"

Flatten(chunks) ==
  LET RECURSIVE flat(_)
      flat(cs) == IF cs = <<>> THEN <<>> ELSE Head(cs) \o flat(Tail(cs))
  IN flat(chunks)

\* frames read from the front of w up to and including the first terminator:
\* ok iff w starts with well-formed frames and a terminator; rest is what
\* follows the terminator
RECURSIVE Decode(_, _)
Decode(w, frames) ==
  LET ends == {i \in 1..Len(w) : IsCRLF(w, i)}
  IN IF ends = {} THEN [ok |-> FALSE, frames |-> frames, rest |-> w]
     ELSE LET i == CHOOSE e \in ends : \A o \in ends : e <= o
              line == SubSeq(w, 1, i - 1)
              valid == line # <<>> /\ \A k \in 1..Len(line) : line[k] \in UpperHex
              n == parseHex(line)
          IN IF ~valid THEN [ok |-> FALSE, frames |-> frames, rest |-> w]
             ELSE IF n = 0
             THEN [ok |-> IsCRLF(w, i + 2), frames |-> frames,
                   rest |-> SubSeq(w, i + 4, Len(w))]
             ELSE IF ~IsCRLF(w, i + 2 + n)
             THEN [ok |-> FALSE, frames |-> frames, rest |-> w]
             ELSE Decode(SubSeq(w, i + 4 + n, Len(w)),
                         Append(frames, SubSeq(w, i + 2, i + 1 + n)))

NonEmpty(chunk) == chunk # <<>>

\* C22: when pump has ended, the bytes it wrote are one frame (uppercase hex
\* length, CRLF, the bytes, CRLF) per non-empty upstream chunk, in order, no
\* frame for an empty chunk, then exactly one terminator 0 CRLF CRLF as the
\* last output; the frame bodies concatenated are the upstream bytes.
C22_ChunkedRelayRoundTrip ==
  relay.pc = "ended" =>
    LET d == Decode(relay.out, <<>>)
    IN /\ d.ok
       /\ d.rest = <<>>
       /\ d.frames = SelectSeq(relay.src, NonEmpty)
       /\ Flatten(d.frames) = Flatten(relay.src)

\* the same for bodies whose chunks are all non-empty
C22_NonEmptyChunksRoundTrip ==
  (relay.pc = "ended" /\ \A i \in 1..Len(relay.src) : relay.src[i] # <<>>) =>
    LET d == Decode(relay.out, <<>>)
    IN /\ d.ok
       /\ d.rest = <<>>
       /\ d.frames = relay.src
       /\ Flatten(d.frames) = Flatten(relay.src)

\* ------------------------------------------------- header filtering
\* A header set is a function from names to values.  Names on the wire come
\* in any case; Node's IncomingMessage.headers and the Headers of a fetch
\* Response both hold them in lower case.

lower == ("Authorization" :> "authorization") @@ ("HOST" :> "host")
         @@ ("Accept" :> "accept") @@ ("Content-Type" :> "content-type")
         @@ ("X-Trace" :> "x-trace") @@ ("Content-Length" :> "content-length")
         @@ ("TRANSFER-ENCODING" :> "transfer-encoding")
         @@ ("Content-Encoding" :> "content-encoding")
         @@ ("Transfer-Encoding" :> "transfer-encoding")

\* String.prototype.toLowerCase
toLowerCase(str) == IF str \in DOMAIN lower THEN lower[str] ELSE str

ClientHeaders == ("Authorization" :> "Bearer alice:sk1") @@ ("HOST" :> "proxy")
                 @@ ("Accept" :> "*/*") @@ ("content-type" :> "text/plain")
                 @@ ("X-Trace" :> "t1")

UpstreamHeaders == ("Content-Length" :> "42") @@ ("TRANSFER-ENCODING" :> "gzip")
                   @@ ("content-encoding" :> "br") @@ ("Content-Type" :> "json")
                   @@ ("x-req" :> "9")

Methods == {"GET", "POST"}

SubFunctions(f) == {[k \in D |-> f[k]] : D \in SUBSET DOMAIN f}

\* the header names of a message in lower case (req.headers, response.headers)
lowerCased(raw) ==
  [k \in {toLowerCase(n) : n \in DOMAIN raw} |->
     raw[CHOOSE n \in DOMAIN raw : toLowerCase(n) = k]]

delete(headers, key) == [k \in DOMAIN headers \ {key} |-> headers[k]]

\* { ...req.headers } without "authorization" and "host"
backendHeadersKeepingHost(reqHeaders) == delete(reqHeaders, "authorization")

backendHeaders(reqHeaders) == delete(delete(reqHeaders, "authorization"), "host")

\* options.headers of sendRequestWithRetries: a copy, with "Content-Type" set
\* on a body-bearing method when the object has no key spelled that way
optionsHeaders(headers, method) ==
  IF method \in {"POST", "PUT", "PATCH"} /\ "Content-Type" \notin DOMAIN headers
  THEN headers @@ ("Content-Type" :> "application/json")
  ELSE headers

omitted == {"content-length", "transfer-encoding", "content-encoding"}

\* headersToSend: response.headers.forEach with the filter, then the assignment
headersToSend(responseHeaders) ==
  LET kept == {k \in DOMAIN responseHeaders : toLowerCase(k) \notin omitted}
  IN ("Transfer-Encoding" :> "chunked") @@ [k \in kept |-> responseHeaders[k]]

PrepareHeaders ==
  /\ hdrs.pc = "received"
  /\ hdrs' = [hdrs EXCEPT !.pc = "prepared",
                          !.backend = backendHeaders(lowerCased(hdrs.raw))]
  /\ UNCHANGED <<variant, deactivateSecurity, servers, authorizedUsers, queue,
                 db, gen, refreshPc, nodeServers, log, world, req, relay,
                 proc, fwd, authz, units>>

FetchOptions ==
  /\ hdrs.pc = "prepared"
  /\ hdrs' = [hdrs EXCEPT !.pc = "fetching",
                          !.options = optionsHeaders(hdrs.backend, hdrs.method)]
  /\ UNCHANGED <<variant, deactivateSecurity, servers, authorizedUsers, queue,
                 db, gen, refreshPc, nodeServers, log, world, req, relay,
                 proc, fwd, authz, units>>

WriteHead ==
  /\ hdrs.pc = "fetching"
  /\ \E up \in SubFunctions(UpstreamHeaders) :
       hdrs' = [hdrs EXCEPT !.pc = "written", !.upstream = up,
                            !.sent = headersToSend(lowerCased(up))]
  /\ UNCHANGED <<variant, deactivateSecurity, servers, authorizedUsers, queue,
                 db, gen, refreshPc, nodeServers, log, world, req, relay,
                 proc, fwd, authz, units>>

InitHeaders ==
  /\ InitCommon
  /\ db = <<"A", "B">>
  /\ world = [headers |-> AuthHeaders, inputs |-> RequestInputs,
              statuses |-> Statuses, streams |-> BOOLEAN]
  /\ variant \in {"standalone", "embedded"}
  /\ deactivateSecurity = FALSE
  /\ relay = NoRelay
  /\ proc = "running"
  /\ fwd = NoForward
  /\ authz = NoAuth
  /\ InitUnits
  /\ \E raw \in SubFunctions(ClientHeaders), method \in Methods :
       hdrs = [NoHeaders EXCEPT !.pc = "received", !.raw = raw,
                                !.method = method]

NextHeaders == PrepareHeaders \/ FetchOptions \/ WriteHead

SpecHeaders == InitHeaders /\ [][NextHeaders]_vars

Carries(headers, name, value) ==
  \E k \in DOMAIN headers : toLowerCase(k) = toLowerCase(name) /\ headers[k] = value

NamesOf(headers) == {toLowerCase(k) : k \in DOMAIN headers}

\* C23: the headers given to fetch hold neither the client's Authorization
\* nor its Host and hold every other client header with its value; the
\* headers written to the client hold no Content-Length and no
\* Content-Encoding in any case, and exactly one Transfer-Encoding, whose
\* value is chunked and not the upstream's.
C23_HeaderFiltering ==
  /\ hdrs.pc \in {"fetching", "written"} =>
       /\ "authorization" \notin NamesOf(hdrs.options)
       /\ "host" \notin NamesOf(hdrs.options)
       /\ \A n \in DOMAIN hdrs.raw :
            toLowerCase(n) \notin {"authorization", "host"}
              => Carries(hdrs.options, n, hdrs.raw[n])
  /\ hdrs.pc = "written" =>
       /\ "content-length" \notin NamesOf(hdrs.sent)
       /\ "content-encoding" \notin NamesOf(hdrs.sent)
       /\ \A k \in DOMAIN hdrs.sent :
            toLowerCase(k) = "transfer-encoding"
              => k = "Transfer-Encoding" /\ hdrs.sent[k] = "chunked"
       /\ Carries(hdrs.sent, "Transfer-Encoding", "chunked")

\* a client that sent Authorization, Host and other headers has been answered
\* from an upstream response holding all three omitted headers
C23_Witness ==
  /\ hdrs.pc = "written"
  /\ {"Authorization", "HOST", "Accept"} \subseteq DOMAIN hdrs.raw
  /\ {"Content-Length", "TRANSFER-ENCODING", "content-encoding"}
       \subseteq DOMAIN hdrs.upstream
  /\ "accept" \in DOMAIN hdrs.options

\* ------------------------------------------------- exceptions

\* C24: an exception that leaves the request handler is handled at the top
\* level and never leaves the request scope, also when the headers had been
\* sent; when they had not, the client receives 500 "Internal server error".
C24_UnhandledException ==
  \A r \in Reqs :
    /\ req[r].thrown # "escaped"
    /\ req[r].thrown = "answered" =>
         /\ req[r].status = 500
         /\ req[r].body = "Internal server error"
         /\ req[r].term = "ended"

\* ------------------------------------------------- shutdown
\* A connection is open from the arrival of its request until the response
\* has been ended or the socket destroyed.
Open(f) == f.pc # "idle" /\ f.term = "open"

\* the SIGINT handler: server.close(callback) in the standalone program,
\* process.exit(0) in the embedded one
Sigint ==
  /\ proc = "running"
  /\ proc' = IF variant = "standalone" THEN "closing" ELSE "exited"
  /\ UNCHANGED <<variant, deactivateSecurity, servers, authorizedUsers, queue,
                 db, gen, refreshPc, nodeServers, log, world, req, relay, hdrs,
                 fwd, authz, units>>

\* the callback of server.close: every connection has ended; process.exit(0)
ServerClosed ==
  /\ proc = "closing"
  /\ \A r \in Reqs : ~Open(req[r])
  /\ proc' = "exited"
  /\ UNCHANGED <<variant, deactivateSecurity, servers, authorizedUsers, queue,
                 db, gen, refreshPc, nodeServers, log, world, req, relay, hdrs,
                 fwd, authz, units>>

\* one client, with and without valid credentials
InitShutdown ==
  /\ InitCommon
  /\ relay = NoRelay
  /\ hdrs = NoHeaders
  /\ proc = "running"
  /\ fwd = NoForward
  /\ authz = NoAuth
  /\ InitUnits
  /\ db = <<"A", "B">>
  /\ world = [headers |-> {<<"Bearer ", "alice", ":", "sk1">>, <<>>},
              inputs |-> RequestInputs, statuses |-> {200}, streams |-> BOOLEAN]
  /\ variant \in {"standalone", "embedded"}
  /\ deactivateSecurity = FALSE

\* a listening server accepts; a process that has not exited runs what it
\* has accepted
NextShutdown ==
  \/ Sigint
  \/ ServerClosed
  \/ proc = "running" /\ \E r \in Reqs : Arrive(r)
  \/ proc # "exited" /\ RefreshGetConfig
  \/ proc # "exited" /\ RefreshGetUsers
  \/ proc # "exited" /\ \E r \in Reqs : BodyEnd(r)
  \/ proc # "exited" /\ \E r \in Reqs : ProbeDone(r)
  \/ proc # "exited" /\ \E r \in Reqs : FetchDone(r)
  \/ proc # "exited" /\ \E r \in Reqs : PumpRead(r)
  \/ proc # "exited" /\ \E r \in Reqs : TextDone(r)

SpecShutdown == InitShutdown /\ [][NextShutdown]_vars

\* C25: after SIGINT no new request is accepted, and the process exits only
\* when no accepted request is still waiting for the end of its response.
C25_Shutdown ==
  [][/\ proc # "running" =>
          \A r \in Reqs : req[r].pc = "idle" => req'[r].pc = "idle"
     /\ proc' = "exited" =>
          \A r \in Reqs : ~Open(req'[r]) /\ req'[r].pc \in {"idle", "done"}]_vars

\* ------------------------------------------------- streaming and the counter
Streaming(r) == ModelPath(r) /\ req[r].pc \in {"pump", "text"}

\* C26: a request that is relaying the body of a backend's response is no
\* longer counted in that backend's depth: the decrement made for the
\* forwarder's return precedes the first byte relayed.
C26_DecrementPrecedesStreaming ==
  \A r \in Reqs : Streaming(r) => Held(r, req[r].cur) = 0

\* ------------------------------------------------- log pairing
Last(s) == s[Len(s)]

Increments(r) == Len(req[r]'.incd) = Len(req[r].incd) + 1
Decrements(r) == Len(req[r]'.decd) = Len(req[r].decd) + 1

\* the row an attempt frame of r is to write for its backend o after the
\* increment or the decrement: the depth is the one read after it
IsFrameRow(row, event, r, o) ==
  /\ row.event = event /\ row.access = "Authorized" /\ row.error = ""
  /\ row.server = o.name
  /\ row.user_name = req[r]'.user
  /\ row.nb_queued_requests_on_server = ToString(queue'[o])

RowsOf(file, event, b) ==
  Cardinality({i \in 1..Len(file) : file[i].event = event /\ file[i].server = b})

\* C27: the step of an attempt frame that increments its backend's counter
\* adds exactly one gen_request row, and the step that decrements it exactly
\* one gen_done row, both with the frame's backend and user and with the depth
\* read after the change (at least 1 after an increment); no backend ever has
\* more gen_done rows than gen_request rows.
C27_LogPairing ==
  [][/\ \A r \in Reqs :
          /\ Increments(r) =>
               /\ queue'[Last(req[r]'.incd)] >= 1
               /\ \E i \in 1..Len(NewRows) :
                    IsFrameRow(NewRows[i], "gen_request", r, Last(req[r]'.incd))
          /\ Decrements(r) =>
               \E i \in 1..Len(NewRows) :
                 IsFrameRow(NewRows[i], "gen_done", r, Last(req[r]'.decd))
          /\ (Increments(r) \/ Decrements(r)) => Len(NewRows) = 1
     /\ \A b \in Names :
          RowsOf(log', "gen_done", b) <= RowsOf(log', "gen_request", b)]_vars

\* ------------------------------------------------- the forwarder
\* upstream requests issued so far by the running call of
\* sendRequestWithRetries of r: the failed ones and the outstanding one
Issued(r) == req[r].att + 1

Outcomes == {0} \cup world.statuses

\* C28: a call of the forwarder issues at most retryAttempts upstream
\* requests; when an attempt settles, another one is issued only if it ended
\* in a transport error or a deadline expiry (outcome 0), and otherwise the
\* call returns: null, leaving nothing to relay, exactly when this was attempt
\* retryAttempts and it failed like all before it, and else the response.
C28_ForwarderAttemptBound ==
  \A r \in Reqs :
    req[r].pc = "fwd" =>
      /\ Issued(r) <= retryAttempts
      /\ \A outcome \in Outcomes, isStream \in world.streams, logOK \in LogOutcomes :
           LET T == attempted(St(r), outcome, isStream, logOK).f
               returnsNull == T.pc # "fwd" /\ T.answered = req[r].answered
           IN /\ T.pc = "fwd" => outcome = 0 /\ T.att = req[r].att + 1
              /\ returnsNull <=> (outcome = 0 /\ Issued(r) = retryAttempts)
              /\ (T.pc # "fwd" /\ ~returnsNull) =>
                   Last(T.answered) = <<req[r].cur, outcome>>

\* one call has its last attempt outstanding after two failures, another has
\* returned a response on its second attempt
C28_Witness ==
  \E r, s \in Reqs :
    /\ req[r].pc = "fwd" /\ Issued(r) = retryAttempts
    /\ req[s].pc = "pump" /\ req[s].att = 1 /\ req[s].answered # <<>>

\* ------------------------------------------------- deadlines of the forwarder
\* One call of sendRequestWithRetries with its fetches and its timers.
\* fetch[k]: "flying" while the upstream request of attempt k is outstanding,
\* "settled" once it has answered or failed, "cancelled" once aborted.
\* timer[k]: "armed", "fired" or "cleared".

\* attempt k begins: fetch(url, options) and setTimeout(...)
issue(F, k) ==
  [F EXCEPT !.pc = "waiting", !.i = k, !.fetch[k] = "flying",
            !.timer[k] = "armed"]

\* the end of one turn of the for loop without a response
nextAttempt(F) ==
  IF F.i < retryAttempts THEN issue(F, F.i + 1)
  ELSE [F EXCEPT !.pc = "returned"]   \* return null

\* the call is waiting for attempt k
awaited(F, k) == F.pc = "waiting" /\ F.i = k

\* the fetch of attempt k settles: ok = a response, otherwise an error
settle(F, k, ok) ==
  LET F1 == [F EXCEPT !.fetch[k] = "settled",
                      !.timer[k] = IF variant = "standalone" /\ awaited(F, k)
                                   THEN "cleared" ELSE @]   \* clearTimeout(id)
  IN IF ~awaited(F, k) THEN F1   \* the race is over: nobody listens
     ELSE IF ok THEN [F1 EXCEPT !.pc = "returned", !.delivered = k]
     ELSE nextAttempt(F1)

\* the timer of attempt k fires: controller.abort() in the standalone
\* program, reject(new Error("Timeout")) in the embedded one
expire(F, k) ==
  LET F1 == [F EXCEPT !.timer[k] = "fired"]
  IN IF variant = "standalone"
     THEN nextAttempt([F1 EXCEPT !.fetch[k] = "cancelled",
                                 !.timedOut = @ \cup {k}])
     ELSE IF awaited(F, k)
          THEN nextAttempt([F1 EXCEPT !.timedOut = @ \cup {k}])
          ELSE F1

FetchSettles ==
  /\ \E k \in Attempts, ok \in BOOLEAN :
       /\ fwd.fetch[k] = "flying"
       /\ fwd' = settle(fwd, k, ok)
  /\ UNCHANGED <<variant, deactivateSecurity, servers, authorizedUsers, queue,
                 db, gen, refreshPc, nodeServers, log, world, req, relay, hdrs,
                 proc, authz, units>>

DeadlineExpires ==
  /\ \E k \in Attempts :
       /\ fwd.timer[k] = "armed"
       /\ fwd' = expire(fwd, k)
  /\ UNCHANGED <<variant, deactivateSecurity, servers, authorizedUsers, queue,
                 db, gen, refreshPc, nodeServers, log, world, req, relay, hdrs,
                 proc, authz, units>>

InitForward ==
  /\ InitCommon
  /\ relay = NoRelay
  /\ hdrs = NoHeaders
  /\ proc = "running"
  /\ db = <<"A", "B">>
  /\ world = [headers |-> AuthHeaders, inputs |-> RequestInputs,
              statuses |-> Statuses, streams |-> BOOLEAN]
  /\ variant \in {"standalone", "embedded"}
  /\ deactivateSecurity = FALSE
  /\ fwd = issue(NoForward, 1)
  /\ authz = NoAuth
  /\ InitUnits

NextForward == FetchSettles \/ DeadlineExpires

SpecForward == InitForward /\ [][NextForward]_vars

Flying == {k \in Attempts : fwd.fetch[k] = "flying"}

\* C29: an attempt whose deadline expired has its upstream request cancelled
\* before the next attempt is issued, so at most one upstream request of the
\* call is outstanding, and it is never the one that delivers the response.
C29_CancelOnTimeout ==
  /\ \A k \in fwd.timedOut : fwd.fetch[k] = "cancelled"
  /\ Cardinality(Flying) <= 1
  /\ fwd.delivered \notin fwd.timedOut

\* ------------------------------------------------- the bearer token
\* The reading of the Authorization header on its own, for tokens of up to
\* MaxToken pieces and a store whose key may hold a colon.

MaxToken == 5

TokenPieces == {"alice", ":", "k"}

Stores == {(<<"alice">> :> <<"k">>), (<<"alice">> :> <<"k", ":", "k">>)}

Authenticate ==
  /\ authz.pc = "read"
  /\ LET a == authenticate(authz.header, authz.users)
     IN authz' = [authz EXCEPT !.pc = "done", !.ok = a.ok, !.user = a.user]
  /\ UNCHANGED <<variant, deactivateSecurity, servers, authorizedUsers, queue,
                 db, gen, refreshPc, nodeServers, log, world, req, relay, hdrs,
                 proc, fwd, units>>

InitToken ==
  /\ InitCommon
  /\ relay = NoRelay
  /\ hdrs = NoHeaders
  /\ proc = "running"
  /\ fwd = NoForward
  /\ InitUnits
  /\ db = <<"A", "B">>
  /\ world = [headers |-> AuthHeaders, inputs |-> RequestInputs,
              statuses |-> Statuses, streams |-> BOOLEAN]
  /\ variant \in {"standalone", "embedded"}
  /\ deactivateSecurity = FALSE
  /\ \E token \in SeqsUpTo(TokenPieces, MaxToken), users \in Stores :
       authz = [NoAuth EXCEPT !.pc = "read", !.users = users,
                             !.header = <<"Bearer ">> \o token]

NextToken == Authenticate

SpecToken == InitToken /\ [][NextToken]_vars

HasColon(token) == \E i \in 1..Len(token) : token[i] = ":"

FirstColon(token) ==
  CHOOSE i \in 1..Len(token) :
    token[i] = ":" /\ \A j \in 1..(i - 1) : token[j] # ":"

USERNAME(token) == SubSeq(token, 1, FirstColon(token) - 1)
KEY(token) == SubSeq(token, FirstColon(token) + 1, Len(token))

\* C30: a bearer token without a colon is rejected; a token with one is cut
\* at its first colon, and is accepted exactly when the stored key of the
\* part before it equals the whole part after it, colons included.
C30_TokenSplit ==
  authz.pc = "done" =>
    LET token == Tail(authz.header)
    IN IF ~HasColon(token) THEN ~authz.ok
       ELSE authz.ok <=> /\ USERNAME(token) \in DOMAIN authz.users
                        /\ authz.users[USERNAME(token)] = KEY(token)

\* the same for stored keys without a colon
C30_TokenSplitPlainKeys ==
  (authz.pc = "done" /\ \A u \in DOMAIN authz.users : ~HasColon(authz.users[u])) =>
    LET token == Tail(authz.header)
    IN IF ~HasColon(token) THEN ~authz.ok
       ELSE authz.ok <=> /\ USERNAME(token) \in DOMAIN authz.users
                        /\ authz.users[USERNAME(token)] = KEY(token)

\* ------------------------------------------------- the request body
\* From the bytes the client sent to options.body of the upstream fetch.
\* A JSON value is written as its JSON.stringify text.

AllMethods == {"GET", "DELETE", "POST", "PUT", "PATCH"}

\* bodies a client may send: nothing, no JSON, and JSON texts
ClientBodies == {"", "not json", "{}", "{ \"q\": 1 }", "{\"q\":1}", "0"}

\* JSON.parse, for the texts it accepts
parsed == ("{}" :> "{}") @@ ("{ \"q\": 1 }" :> "{\"q\":1}")
          @@ ("{\"q\":1}" :> "{\"q\":1}") @@ ("0" :> "0")

\* try { postData = JSON.parse(body) } catch { postData = {} }
parseBody(text) == IF text \in DOMAIN parsed THEN parsed[text] ELSE "{}"

\* JavaScript truthiness of a JSON value: every object is truthy, also {}
truthyValue(value) == value \notin {"0", "null", "false", "\"\""}

\* options.body of sendRequestWithRetries; "none" when it is not set
optionsBody(method, postData) ==
  IF method \in {"POST", "PUT", "PATCH"} /\ truthyValue(postData)
  THEN postData   \* JSON.stringify(postData)
  ELSE "none"

\* let postData = {}; the body is read and parsed for POST only
ReadBody ==
  /\ post.pc = "received"
  /\ post' = [post EXCEPT !.pc = "parsed",
                          !.postData = IF post.method = "POST"
                                       THEN parseBody(post.text) ELSE "{}"]
  /\ UNCHANGED <<variant, deactivateSecurity, servers, authorizedUsers, queue,
                 db, gen, refreshPc, nodeServers, log, world, req, relay, hdrs,
                 proc, fwd, authz, probe, userTable>>

SendBody ==
  /\ post.pc = "parsed"
  /\ post' = [post EXCEPT !.pc = "sent",
                          !.body = optionsBody(post.method, post.postData)]
  /\ UNCHANGED <<variant, deactivateSecurity, servers, authorizedUsers, queue,
                 db, gen, refreshPc, nodeServers, log, world, req, relay, hdrs,
                 proc, fwd, authz, probe, userTable>>

InitBody ==
  /\ InitCommon
  /\ relay = NoRelay
  /\ hdrs = NoHeaders
  /\ proc = "running"
  /\ fwd = NoForward
  /\ authz = NoAuth
  /\ probe = NoProbe
  /\ userTable = NoUsers
  /\ db = <<"A", "B">>
  /\ world = [headers |-> AuthHeaders, inputs |-> RequestInputs,
              statuses |-> Statuses, streams |-> BOOLEAN]
  /\ variant \in {"standalone", "embedded"}
  /\ deactivateSecurity = FALSE
  /\ \E method \in AllMethods, text \in ClientBodies :
       post = [NoPost EXCEPT !.pc = "received", !.method = method,
                             !.text = text]

NextBody == ReadBody \/ SendBody

SpecBody == InitBody /\ [][NextBody]_vars

\* the payload of the request is a JSON value that is not empty
NonEmptyPayload(text) ==
  text \in DOMAIN parsed /\ parsed[text] \notin {"{}", "0", "null", "false", "\"\""}

BodyBearing == {"POST", "PUT", "PATCH"}

\* C31: the upstream request carries a body exactly when the method is POST,
\* PUT or PATCH and the request's payload is not empty, and the body is then
\* the payload as JSON; a body-bearing request with an empty or undecodable
\* body, and any other method, is forwarded without a body.
C31_BodyForwarding ==
  post.pc = "sent" =>
    IF post.method \in BodyBearing /\ NonEmptyPayload(post.text)
    THEN post.body = parsed[post.text]
    ELSE post.body = "none"

\* the same for POST requests whose payload is not empty, and for the
\* methods without a body
C31_PostWithPayload ==
  (post.pc = "sent" /\ post.method \notin {"PUT", "PATCH"}
     /\ (post.method = "POST" => NonEmptyPayload(post.text))) =>
    IF post.method = "POST"
    THEN post.body = parsed[post.text]
    ELSE post.body = "none"

\* ------------------------------------------------- the logged depth
\* the integers an append is called with: -1 for a rejection, the length of
\* a queue otherwise
LoggedDepths == {-1} \cup 0..NumReqs

\* C32: the nb_queued_requests_on_server field of every row of the log is
\* the integer the append was called with: -1 in a rejected row, a depth
\* from 0 upwards in a gen_request or gen_done row, written as that integer.
C32_LoggedQueueDepth ==
  \A i \in 2..Len(log) :
    /\ log[i].nb_queued_requests_on_server \in {ToString(n) : n \in LoggedDepths}
    /\ log[i].event = "rejected" => log[i].nb_queued_requests_on_server = "-1"

\* the same for the rows written with a depth other than 0
C32_NonZeroDepths ==
  \A n \in LoggedDepths \ {0} :
    csvLine("gen_done", <<"alice">>, "Authorized", "A", n, "")
      .nb_queued_requests_on_server = ToString(n)

\* ------------------------------------------------- the liveness probe
\* One call of isServerAvailable with its fetch and its 2-second timer.
\* fetch: "flying", "answered" (status holds the code), "failed" (transport
\* error) or "cancelled"; timer: "armed", "fired" or "cleared"; atReturn is
\* what the fetch and the timer were when the call returned.

ProbeStatuses == {200, 201, 204, 301, 304, 400, 404, 500, 503}

\* a status below 400 counted as a success
okBelow400(status) == status \in 200..399

\* Response.ok
ok(status) == status \in 200..299

boolean(b) == IF b THEN "true" ELSE "false"

\* the call returns b
returnProbe(P, b) ==
  [P EXCEPT !.pc = "returned", !.result = boolean(b),
            !.atReturn = [fetch |-> P.fetch, status |-> P.status,
                          timer |-> P.timer]]

\* the fetch settles: outcome 0 = transport error, otherwise the status
settleProbe(P, outcome) ==
  LET P1 == [P EXCEPT !.fetch = IF outcome = 0 THEN "failed" ELSE "answered",
                      !.status = outcome]
  IN IF P.pc # "waiting" THEN P1   \* the race is over
     ELSE IF outcome = 0 THEN returnProbe(P1, FALSE)   \* catch
     ELSE IF variant = "standalone"
          THEN returnProbe([P1 EXCEPT !.timer = "cleared"], ok(outcome))
          ELSE returnProbe(P1, ok(outcome))

\* the timer fires: controller.abort() in the standalone program,
\* resolve(false) in the embedded one
expireProbe(P) ==
  LET P1 == [P EXCEPT !.timer = "fired"]
  IN IF variant = "standalone"
     THEN IF P.fetch = "flying"
          THEN returnProbe([P1 EXCEPT !.fetch = "cancelled"], FALSE)
          ELSE P1
     ELSE IF P.pc = "waiting" THEN returnProbe(P1, FALSE) ELSE P1

ProbeSettles ==
  /\ probe.fetch = "flying"
  /\ \E outcome \in {0} \cup ProbeStatuses : probe' = settleProbe(probe, outcome)
  /\ UNCHANGED <<variant, deactivateSecurity, servers, authorizedUsers, queue,
                 db, gen, refreshPc, nodeServers, log, world, req, relay, hdrs,
                 proc, fwd, authz, post, userTable>>

ProbeExpires ==
  /\ probe.timer = "armed"
  /\ probe' = expireProbe(probe)
  /\ UNCHANGED <<variant, deactivateSecurity, servers, authorizedUsers, queue,
                 db, gen, refreshPc, nodeServers, log, world, req, relay, hdrs,
                 proc, fwd, authz, post, userTable>>

InitProbe ==
  /\ InitCommon
  /\ relay = NoRelay
  /\ hdrs = NoHeaders
  /\ proc = "running"
  /\ fwd = NoForward
  /\ authz = NoAuth
  /\ post = NoPost
  /\ userTable = NoUsers
  /\ db = <<"A", "B">>
  /\ world = [headers |-> AuthHeaders, inputs |-> RequestInputs,
              statuses |-> Statuses, streams |-> BOOLEAN]
  /\ variant \in {"standalone", "embedded"}
  /\ deactivateSecurity = FALSE
  /\ \E url \in Names :
       probe = [NoProbe EXCEPT !.pc = "waiting", !.url = url,
                               !.fetch = "flying", !.timer = "armed"]

NextProbe == ProbeSettles \/ ProbeExpires

SpecProbe == InitProbe /\ [][NextProbe]_vars

\* C33: a probe that is waiting has its deadline armed, so that it completes;
\* it completes with a boolean, which is true exactly when a response with a
\* 2xx status had arrived and the deadline had not expired, and false after
\* a transport error, another status or the expiry.
C33_ProbeResult ==
  /\ probe.pc = "waiting" => probe.timer = "armed"
  /\ probe.pc = "returned" =>
       /\ probe.result \in {"true", "false"}
       /\ probe.result = "true" <=>
            /\ probe.atReturn.fetch = "answered"
            /\ probe.atReturn.status \in 200..299
            /\ probe.atReturn.timer # "fired"

\* a probe answered false at its deadline, whose backend answers 200 later
C33_Witness ==
  /\ probe.pc = "returned" /\ probe.result = "false"
  /\ probe.atReturn.timer = "fired"
  /\ probe.fetch = "answered" /\ probe.status = 200

\* ------------------------------------------------- the published list
RequestStep == \E r \in Reqs : req[r]' # req[r]

\* C34: a step of a request leaves the published list of backends as it
\* was, in order and in membership, and so its first element, the default
\* backend; sorting and removing act on the request's own candidates.
C34_SnapshotNotMutated ==
  [][RequestStep => servers' = servers]_vars

\* a request whose candidates are no longer the published backends of its
\* model in the published order, with no refresh since it was routed
C34_Witness ==
  \E r \in Reqs :
    /\ ModelPath(r) /\ req[r].pc = "probe" /\ req[r].snap = servers
    /\ Len(req[r].probed) >= 2
    /\ req[r].avail # filterByModel(servers, req[r].model)

\* ------------------------------------------------- ordering under concurrency
\* C35: the depth a request sorts by is best effort: a request that has
\* chosen a backend and is probing it is not yet counted on it, so a second
\* request can sort on the same depths and choose the same backend.
C35_BestEffortOrdering ==
  \A r \in Reqs :
    (ModelPath(r) /\ req[r].pc = "probe") => Held(r, req[r].cur) = 0

\* two requests for the same model, routed on the same list, each of which
\* has probed only the first backend and is counted on it, while another
\* backend of the list that serves the model has depth 0
C35_Witness ==
  \E r, s \in Reqs :
    /\ r # s
    /\ req[r].model = req[s].model
    /\ req[r].snap = servers /\ req[s].snap = servers
    /\ req[r].pc = "fwd" /\ req[s].pc = "fwd"
    /\ req[r].probed = <<servers[1]>> /\ req[s].probed = <<servers[1]>>
    /\ req[r].cur = servers[1] /\ req[s].cur = servers[1]
    /\ queue[servers[1]] = 2
    /\ \E i \in 2..Len(servers) :
         /\ supports(servers[i], req[r].model)
         /\ queue[servers[i]] = 0

\* ------------------------------------------------- termination
\* Every await of a request settles: the body arrives, a probe, a forward
\* attempt and a read of the upstream body each complete, fail or time out.
Settling ==
  \A r \in Reqs :
    /\ WF_vars(BodyEnd(r)) /\ WF_vars(ProbeDone(r)) /\ WF_vars(FetchDone(r))
    /\ WF_vars(PumpRead(r)) /\ WF_vars(TextDone(r))

SpecLive == Init /\ [][Next]_vars /\ Settling

\* the candidates of r: the backends of its list that serve its model
Candidates(r) == filterByModel(req[r].snap, req[r].model)

\* one terminal outcome: one status line, and a body that has been ended or
\* whose connection was torn down while the upstream body was relayed
Terminal(r) ==
  /\ req[r].heads = 1 /\ req[r].term \in {"ended", "destroyed"}
  /\ req[r].status \in {400, 403, 500, 503} \cup Statuses

AttemptsBounded(r) ==
  ModelPath(r) => /\ Len(req[r].probed) <= Len(Candidates(r))
                  /\ Len(req[r].sent) <= Len(Candidates(r))

\* C36: a request makes at most one probe and one forwarder call per
\* candidate, ends with exactly one terminal outcome, and, when all its
\* awaits settle, does end.
C36_Termination ==
  /\ [](\A r \in Reqs : AttemptsBounded(r) /\ (req[r].pc = "done" => Terminal(r)))
  /\ \A r \in Reqs : (req[r].pc # "idle") ~> (req[r].pc = "done")

\* the handler of every accepted request returns when all its awaits settle
C36_HandlerReturns ==
  \A r \in Reqs : (req[r].pc # "idle") ~> (req[r].pc = "done")

C36_AttemptsBounded == \A r \in Reqs : AttemptsBounded(r)

\* ------------------------------------------------- counter identity
\* all increments of all requests on object o not yet matched by a decrement
HeldBy(o) == Sum([r \in Reqs |-> Held(r, o)], Reqs)

\* the step is a decrement of request r
Pops(r) == Len(req[r].decd') = Len(req[r].decd) + 1

\* C37: a decrement acts on the counter object the request's increment acted
\* on, also after a refresh replaced the list; the counter it acts on reads at
\* least 1, and afterwards still holds the count of every other request.
C37_SameCounterObject ==
  [][\A r \in Reqs : Pops(r) =>
       LET o == Last(req[r].decd') IN
         /\ req[r].incd # <<>> /\ o = Last(req[r].incd)
         /\ Held(r, o) = 1
         /\ queue[o] >= 1
         /\ queue' = [queue EXCEPT ![o] = @ - 1]
         /\ \A s \in Reqs \ {r} : queue'[o] >= Held(s, o)]_vars

\* no counter reads less than the increments still held on it
C37_CountsKept == \A o \in DOMAIN queue : queue[o] >= HeldBy(o)

\* a request has decremented a counter object that a refresh had already
\* replaced in the published list, while another request holds the count of
\* the object that replaced it
C37_Witness ==
  \E r \in Reqs :
    /\ req[r].decd # <<>>
    /\ LET o == Last(req[r].decd) IN
         /\ \A i \in 1..Len(servers) : servers[i] # o
         /\ Held(r, o) = 0 /\ queue[o] = 0
         /\ \E i \in 1..Len(servers), s \in Reqs \ {r} :
              /\ servers[i].name = o.name
              /\ Held(s, servers[i]) = 1 /\ queue[servers[i]] = 1

\* ------------------------------------------------- user creation
\* req.body.username and req.body.key; "" stands for a missing field
BodyUsernames == {"", "alice", "bob"}
BodyKeys == {"", "k1"}

\* the bearer token after split(":"); <<>> stands for no bearer header
BearerTokens == {<<>>, <<"alice", "k1">>, <<"bob", "k1">>, <<"alice", "k2">>,
                 <<"alice">>}

\* extractCredentialsFromHeader: null (<<>>) unless the token has two parts
extractCredentialsFromHeader(token) == IF Len(token) # 2 THEN <<>> ELSE token

\* [...users].sort((a, b) => a.id.localeCompare(b.id))[0]
firstUser(users) ==
  users[CHOOSE i \in 1..Len(users) : \A j \in 1..Len(users) : users[i].id <= users[j].id]

\* prisma.user.findUnique({ where: { username } }): a sequence of 0 or 1 rows
getUserByUsername(rows, username) ==
  SelectSeq(rows, LAMBDA u : u.username = username)

\* router.post("/") up to its first await
postUsers(T, p, username, key, token) ==
  LET f == [NoCreation EXCEPT !.username = username, !.key = key, !.token = token]
  IN IF username = "" \/ key = ""
     THEN [T EXCEPT !.posts[p] = [f EXCEPT !.pc = "done", !.status = 400]]
     ELSE [T EXCEPT !.posts[p] = [f EXCEPT !.pc = "listUsers"]]

\* canCreateUsers from the result of listUsers() to its next await or return
listed(T, p) ==
  LET f == T.posts[p]
      users == T.rows
      credentials == extractCredentialsFromHeader(f.token)
  IN IF Len(users) = 0
     THEN [T EXCEPT !.posts[p] = [f EXCEPT !.pc = "createUser", !.users = users]]
     ELSE IF credentials = <<>>
          THEN [T EXCEPT !.posts[p] = [f EXCEPT !.pc = "done", !.users = users,
                                                !.status = 403]]
          ELSE [T EXCEPT !.posts[p] = [f EXCEPT !.pc = "getUserByUsername",
                                                !.users = users]]

\* canCreateUsers from the result of getUserByUsername() to its return
found(T, p) ==
  LET f == T.posts[p]
      credentials == extractCredentialsFromHeader(f.token)
      foundUser == getUserByUsername(T.rows, credentials[1])
      allowed == /\ foundUser # <<>>
                 /\ foundUser[1].username = firstUser(f.users).username
                 /\ foundUser[1].key = credentials[2]
  IN IF allowed
     THEN [T EXCEPT !.posts[p] = [f EXCEPT !.pc = "createUser"]]
     ELSE [T EXCEPT !.posts[p] = [f EXCEPT !.pc = "done", !.status = 403]]

\* createUser: the insert fails on a taken username; ids (cuid) grow with the
\* order of creation; 'by' remembers the credentials of the creating request
created(T, p) ==
  LET f == T.posts[p]
  IN IF getUserByUsername(T.rows, f.username) # <<>>
     THEN [T EXCEPT !.posts[p] = [f EXCEPT !.pc = "done", !.status = 500]]
     ELSE [T EXCEPT !.rows = Append(@, [id |-> Len(T.rows) + 1,
                                        username |-> f.username, key |-> f.key,
                                        by |-> extractCredentialsFromHeader(f.token)]),
                    !.posts[p] = [f EXCEPT !.pc = "done", !.status = 201]]

UsersStep(T) ==
  /\ userTable' = T
  /\ UNCHANGED <<variant, deactivateSecurity, servers, authorizedUsers, queue,
                 db, gen, refreshPc, nodeServers, log, world, req, relay, hdrs,
                 proc, fwd, authz, post, probe>>

PostUsers(p) ==
  /\ userTable.posts[p].pc = "idle"
  /\ \E username \in BodyUsernames, key \in BodyKeys, token \in BearerTokens :
       UsersStep(postUsers(userTable, p, username, key, token))

ListUsersDone(p) ==
  /\ userTable.posts[p].pc = "listUsers"
  /\ UsersStep(listed(userTable, p))

GetUserDone(p) ==
  /\ userTable.posts[p].pc = "getUserByUsername"
  /\ UsersStep(found(userTable, p))

CreateUserDone(p) ==
  /\ userTable.posts[p].pc = "createUser"
  /\ UsersStep(created(userTable, p))

InitUsers ==
  /\ InitCommon
  /\ relay = NoRelay
  /\ hdrs = NoHeaders
  /\ proc = "running"
  /\ fwd = NoForward
  /\ authz = NoAuth
  /\ post = NoPost
  /\ probe = NoProbe
  /\ db = <<"A", "B">>
  /\ world = [headers |-> AuthHeaders, inputs |-> RequestInputs,
              statuses |-> Statuses, streams |-> BOOLEAN]
  /\ variant = "embedded"
  /\ deactivateSecurity = FALSE
  /\ userTable = [NoUsers EXCEPT !.pc = "serving"]

NextUsers ==
  \E p \in Posts :
    PostUsers(p) \/ ListUsersDone(p) \/ GetUserDone(p) \/ CreateUserDone(p)

SpecUsers == InitUsers /\ [][NextUsers]_vars

\* the credentials of the first user of the table
FirstCredentials ==
  <<firstUser(userTable.rows).username, firstUser(userTable.rows).key>>

\* the users created by a request that did not carry them
Uncredentialed ==
  {i \in 1..Len(userTable.rows) : userTable.rows[i].by # FirstCredentials}

\* C38: from an empty table, at most one user is created by a POST /users
\* that does not carry the first user's credentials, and every creation
\* after the first carries the first user's username and key.
C38_UserBootstrap ==
  userTable.rows # <<>> =>
    /\ Cardinality(Uncredentialed) <= 1
    /\ \A i \in 2..Len(userTable.rows) : userTable.rows[i].by = FirstCredentials

\* the same for requests that do not overlap: a request that arrives when a
\* user exists creates a user only with the first user's credentials
C38_CreationAfterFirst ==
  \A p \in Posts :
    (userTable.posts[p].status = 201 /\ userTable.posts[p].users # <<>>) =>
      extractCredentialsFromHeader(userTable.posts[p].token) =
        <<firstUser(userTable.posts[p].users).username,
          firstUser(userTable.posts[p].users).key>>

================================================================================
